---- MODULE Spec2Model ----
(***************************************************************************)
(* Model of the dimensions block-support panel of the block editor         *)
(* (hooks/dimensions.js): the "reset all" callback of DimensionsPanel, the *)
(* panel's gating on platform / support / disabled flags, and the side     *)
(* configuration helpers useCustomSides and useIsDimensionsSupportValid.   *)
(***************************************************************************)
EXTENDS Integers, Sequences, FiniteSets, TLC

(***************************************************************************)
(* Bounds of the explored inputs.                                          *)
(***************************************************************************)
NumValues == 1
MaxSideKeys == 1
MaxSides == 2

(***************************************************************************)
(* JavaScript values, tagged by their type.                                *)
(***************************************************************************)
Undef == [t |-> "undefined"]
Bool(b) == [t |-> "boolean", b |-> b]
Str(s) == [t |-> "string", s |-> s]
List(l) == [t |-> "list", l |-> l]
Obj(f) == [t |-> "object", f |-> f]
NoKeys == [k \in {} |-> Undef]
EmptyObj == Obj(NoKeys)

IsObj(v) == v.t = "object"

\* typeof v
TypeOf(v) == IF v.t = "list" THEN "object" ELSE v.t

\* ToBoolean(v), as used by !v, v && ..., !!v
Truthy(v) ==
    CASE v.t = "undefined" -> FALSE
      [] v.t = "boolean" -> v.b
      [] v.t = "string" -> v.s # ""
      [] OTHER -> TRUE

\* v?.k : undefined when v is not an object or has no own key k
OptGet(v, k) == IF IsObj(v) /\ k \in DOMAIN v.f THEN v.f[k] ELSE Undef

\* { ...v } : the own keys of v, none when v is undefined
Spread(v) == IF IsObj(v) THEN v.f ELSE NoKeys

\* { ...base, k1: v1, k2: v2, ... } : later keys override spread ones
Assign(base, over) ==
    [k \in DOMAIN base \cup DOMAIN over |->
        IF k \in DOMAIN over THEN over[k] ELSE base[k]]

(***************************************************************************)
(* Program constants.                                                      *)
(***************************************************************************)
DIMENSIONS_SUPPORT_KEY == "__experimentalDimensions"
SPACING_SUPPORT_KEY == "spacing"
ALL_SIDES == <<"top", "right", "bottom", "left">>
AXIAL_SIDES == <<"vertical", "horizontal">>

Features == {"height", "minHeight", "padding", "margin"}
\* the category of the style object a feature is stored under
Category(F) == IF F \in {"height", "minHeight"} THEN "dimensions" ELSE "spacing"
\* the support key a feature is declared under
SupportKey(F) ==
    IF F \in {"height", "minHeight"} THEN DIMENSIONS_SUPPORT_KEY
    ELSE SPACING_SUPPORT_KEY

(***************************************************************************)
(* utils.cleanEmptyObject: recursively strips absent fields and empty      *)
(* nested objects; an object left with no field is itself absent.          *)
(* A style pruned away as a whole is therefore undefined.                  *)
(***************************************************************************)
RECURSIVE cleanEmptyObject(_)
cleanEmptyObject(object) ==
    IF ~IsObj(object) THEN object
    ELSE LET cleaned == [k \in DOMAIN object.f |-> cleanEmptyObject(object.f[k])]
             kept == {k \in DOMAIN object.f : cleaned[k] # Undef}
         IN IF kept = {} THEN Undef
            ELSE Obj([k \in kept |-> cleaned[k]])

(***************************************************************************)
(* The style objects explored.                                             *)
(***************************************************************************)
ScalarNames == <<"10px", "2em", "50%">>
SideKeyNames == <<"top", "left", "bottom">>
Scalars == {Str(ScalarNames[i]) : i \in 1..NumValues}
SideKeys == {SideKeyNames[i] : i \in 1..MaxSideKeys}

\* functions giving, to each key of a subset of K, a value of V[k]
RECURSIVE FieldsOver(_, _)
FieldsOver(K, V) ==
    IF K = {} THEN {NoKeys}
    ELSE LET k == CHOOSE x \in K : TRUE
             rest == FieldsOver(K \ {k}, V)
         IN rest \cup {Assign(r, k :> v) : r \in rest, v \in V[k]}

\* objects holding, for each key of a subset of K, a value of V[k]
ObjsOver(K, V) == {Obj(f) : f \in FieldsOver(K, V)}

\* per-side values of margin / padding, the empty object included
SideObjs == ObjsOver(SideKeys, [k \in SideKeys |-> Scalars])
DimensionsObjs ==
    ObjsOver({"height", "minHeight", "aspectRatio"},
             [k \in {"height", "minHeight", "aspectRatio"} |-> Scalars])
SpacingObjs ==
    ObjsOver({"margin", "padding", "blockGap"},
             [k \in {"margin", "padding", "blockGap"} |->
                 IF k = "blockGap" THEN Scalars ELSE Scalars \cup SideObjs])
ElementsObjs ==
    {EmptyObj, Obj([link |-> EmptyObj])}
      \cup {Obj([link |-> Obj([color |-> s])]) : s \in Scalars}
Styles ==
    {Undef} \cup
    ObjsOver({"dimensions", "spacing", "elements"},
             [k \in {"dimensions", "spacing", "elements"} |->
                 CASE k = "dimensions" -> DimensionsObjs
                   [] k = "spacing" -> SpacingObjs
                   [] OTHER -> ElementsObjs])

(***************************************************************************)
(* State.                                                                  *)
(***************************************************************************)
VARIABLES
    attributes,   \* props.attributes of the block: style and className
    setterCalls,  \* arguments of the props.setAttributes calls of the last operation
    lastOp,       \* the last operation run
    prevOp,       \* the operation run before it
    prevStyle,    \* attributes.style before the last operation
    platform,     \* Platform.OS
    blockName,    \* props.name, the registered block the panel belongs to
    supports,     \* the supports declaration of that block type
    settings,     \* per feature: the block context disables the feature
    panel,        \* what DimensionsPanel last rendered
    feature,      \* the feature argument of the last side-configuration call
    ret,          \* the value that call returned
    warnings,     \* the console.warn messages that call emitted
    raised        \* whether that call threw

styleVars == <<attributes, setterCalls, prevOp, prevStyle>>
panelVars == <<platform, settings, panel>>
sidesVars == <<feature, ret, warnings, raised>>
vars == <<styleVars, panelVars, sidesVars, lastOp, blockName, supports>>

\* props.setAttributes(partial): merges the partial into the attributes
setAttributes(attrs, partial) == Assign(attrs, partial)

RECURSIVE ApplyCalls(_, _)
ApplyCalls(attrs, calls) ==
    IF calls = <<>> THEN attrs
    ELSE ApplyCalls(setAttributes(attrs, Head(calls)), Tail(calls))

(***************************************************************************)
(* The sub-controls' hasValue predicate and individual reset.              *)
(***************************************************************************)
\* the feature's field is present and non-empty in the style
hasValue(F, style) ==
    LET v == OptGet(OptGet(style, Category(F)), F)
    IN v # Undef /\ v # EmptyObj

\* removes the feature's own field only, then prunes as resetAll does
resetFeature(F, attrs) ==
    LET style == attrs["style"]
        cat == Category(F)
    IN << [style |->
            cleanEmptyObject(
              Obj(Assign(Spread(style),
                  (cat :> Obj(Assign(Spread(OptGet(style, cat)),
                                     (F :> Undef)))))))] >>

(***************************************************************************)
(* DimensionsPanel.resetAll                                                *)
(***************************************************************************)
\* slip: padding is not reset
resetAllStyle_keepsPadding(style) ==
    Obj(Assign(Spread(style),
        [dimensions |->
            Obj(Assign(Spread(OptGet(style, "dimensions")),
                       [height |-> Undef, minHeight |-> Undef])),
         spacing |->
            Obj(Assign(Spread(OptGet(style, "spacing")),
                       [margin |-> Undef]))]))

\* slip: minHeight is not reset
resetAllStyle_keepsMinHeight(style) ==
    Obj(Assign(Spread(style),
        [dimensions |->
            Obj(Assign(Spread(OptGet(style, "dimensions")),
                       [height |-> Undef])),
         spacing |->
            Obj(Assign(Spread(OptGet(style, "spacing")),
                       [margin |-> Undef, padding |-> Undef]))]))

\* slip: the whole style, not style.spacing, is spread into spacing
resetAllStyle_spreadsStyle(style) ==
    Obj(Assign(Spread(style),
        [dimensions |->
            Obj(Assign(Spread(OptGet(style, "dimensions")),
                       [height |-> Undef, minHeight |-> Undef])),
         spacing |->
            Obj(Assign(Spread(style),
                       [margin |-> Undef, padding |-> Undef]))]))

\* the object literal handed to cleanEmptyObject
resetAllStyle(style) ==
    Obj(Assign(Spread(style),
        [dimensions |->
            Obj(Assign(Spread(OptGet(style, "dimensions")),
                       [height |-> Undef, minHeight |-> Undef])),
         spacing |->
            Obj(Assign(Spread(OptGet(style, "spacing")),
                       [margin |-> Undef, padding |-> Undef]))]))

\* slip: one setter call per feature instead of one for all
resetAll_perFeature(attrs) ==
    resetFeature("height", attrs) \o resetFeature("minHeight", attrs)
      \o resetFeature("padding", attrs) \o resetFeature("margin", attrs)

\* slip: the literal is stored without pruning
resetAll_unpruned(attrs) ==
    LET style == attrs["style"]
    IN << [style |-> resetAllStyle(style)] >>

\* the props.setAttributes calls made by one invocation of resetAll
resetAll(attrs) ==
    LET style == attrs["style"]
    IN << [style |-> cleanEmptyObject(resetAllStyle(style))] >>

(***************************************************************************)
(* Block supports and the per-feature support / disabled predicates.       *)
(***************************************************************************)
\* lodash get( object, path ): undefined as soon as a key is missing
RECURSIVE GetPath(_, _)
GetPath(v, path) ==
    IF path = <<>> THEN v ELSE GetPath(OptGet(v, Head(path)), Tail(path))

\* getBlockSupport( name, path ): the entry of the block type's supports
getBlockSupport(name, path) ==
    IF name = blockName THEN GetPath(supports, path) ELSE Undef

\* the block type declares support for the feature
hasFeatureSupport(F, name) ==
    LET support == getBlockSupport(name, <<SupportKey(F)>>)
    IN support = Bool(TRUE) \/ Truthy(OptGet(support, F))

hasHeightSupport(name) == hasFeatureSupport("height", name)
hasMinHeightSupport(name) == hasFeatureSupport("minHeight", name)
hasPaddingSupport(name) == hasFeatureSupport("padding", name)
hasMarginSupport(name) == hasFeatureSupport("margin", name)

\* a feature is disabled when it is not supported or the context disables it
useIsFeatureDisabled(F, props) ==
    ~hasFeatureSupport(F, props.name) \/ settings[F]

useIsHeightDisabled(props) == useIsFeatureDisabled("height", props)
useIsMinHeightDisabled(props) == useIsFeatureDisabled("minHeight", props)
useIsPaddingDisabled(props) == useIsFeatureDisabled("padding", props)
useIsMarginDisabled(props) == useIsFeatureDisabled("margin", props)

(***************************************************************************)
(* hasDimensionsSupport, useIsDimensionsDisabled, DimensionsPanel          *)
(***************************************************************************)
\* slip: the platform is not looked at
hasDimensionsSupport_anyPlatform(name) ==
    \/ hasHeightSupport(name)
    \/ hasMinHeightSupport(name)
    \/ hasPaddingSupport(name)
    \/ hasMarginSupport(name)

hasDimensionsSupport(name) ==
    IF platform # "web" THEN FALSE
    ELSE \/ hasHeightSupport(name)
         \/ hasMinHeightSupport(name)
         \/ hasPaddingSupport(name)
         \/ hasMarginSupport(name)

useIsDimensionsDisabled(props) ==
    LET heightDisabled == useIsHeightDisabled(props)
        minHeightDisabled == useIsMinHeightDisabled(props)
        paddingDisabled == useIsPaddingDisabled(props)
        marginDisabled == useIsMarginDisabled(props)
    IN heightDisabled /\ minHeightDisabled /\ paddingDisabled /\ marginDisabled

Unrendered == [t |-> "unrendered"]
Null == [t |-> "null"]

\* a ToolsPanelItem with the props the panel passes to it
ToolsPanelItem(F, label, isShownByDefault) ==
    [feature |-> F, label |-> label, isShownByDefault |-> isShownByDefault]

\* slip: isShownByDefault also gates the rendering of an item
DimensionsPanel_gatedByDefault(props) ==
    LET isPaddingDisabled == useIsPaddingDisabled(props)
        isMarginDisabled == useIsMarginDisabled(props)
        isHeightDisabled == useIsHeightDisabled(props)
        isMinHeightDisabled == useIsMinHeightDisabled(props)
        isDisabled == useIsDimensionsDisabled(props)
        isSupported == hasDimensionsSupport(props.name)
        defaultDimensionsControls ==
            getBlockSupport(props.name,
                <<DIMENSIONS_SUPPORT_KEY, "__experimentalDefaultControls">>)
        defaultSpacingControls ==
            getBlockSupport(props.name,
                <<SPACING_SUPPORT_KEY, "__experimentalDefaultControls">>)
        children ==
            << [show |-> ~isHeightDisabled
                           /\ Truthy(OptGet(defaultDimensionsControls, "height")),
                item |-> ToolsPanelItem("height", "Height",
                            OptGet(defaultDimensionsControls, "height"))],
               [show |-> ~isMinHeightDisabled
                           /\ Truthy(OptGet(defaultDimensionsControls, "minHeight")),
                item |-> ToolsPanelItem("minHeight", "Minimum height",
                            OptGet(defaultDimensionsControls, "minHeight"))],
               [show |-> ~isPaddingDisabled
                           /\ Truthy(OptGet(defaultSpacingControls, "padding")),
                item |-> ToolsPanelItem("padding", "Padding",
                            OptGet(defaultSpacingControls, "padding"))],
               [show |-> ~isMarginDisabled
                           /\ Truthy(OptGet(defaultSpacingControls, "margin")),
                item |-> ToolsPanelItem("margin", "Margin",
                            OptGet(defaultSpacingControls, "margin"))] >>
        shown == SelectSeq(children, LAMBDA c : c.show)
    IN IF isDisabled \/ ~isSupported THEN Null
       ELSE [t |-> "panel",
             header |-> "Dimensions",
             items |-> [i \in 1..Len(shown) |-> shown[i].item]]

\* what DimensionsPanel( props ) returns
DimensionsPanel(props) ==
    LET isPaddingDisabled == useIsPaddingDisabled(props)
        isMarginDisabled == useIsMarginDisabled(props)
        isHeightDisabled == useIsHeightDisabled(props)
        isMinHeightDisabled == useIsMinHeightDisabled(props)
        isDisabled == useIsDimensionsDisabled(props)
        isSupported == hasDimensionsSupport(props.name)
        defaultDimensionsControls ==
            getBlockSupport(props.name,
                <<DIMENSIONS_SUPPORT_KEY, "__experimentalDefaultControls">>)
        defaultSpacingControls ==
            getBlockSupport(props.name,
                <<SPACING_SUPPORT_KEY, "__experimentalDefaultControls">>)
        children ==
            << [show |-> ~isHeightDisabled,
                item |-> ToolsPanelItem("height", "Height",
                            OptGet(defaultDimensionsControls, "height"))],
               [show |-> ~isMinHeightDisabled,
                item |-> ToolsPanelItem("minHeight", "Minimum height",
                            OptGet(defaultDimensionsControls, "minHeight"))],
               [show |-> ~isPaddingDisabled,
                item |-> ToolsPanelItem("padding", "Padding",
                            OptGet(defaultSpacingControls, "padding"))],
               [show |-> ~isMarginDisabled,
                item |-> ToolsPanelItem("margin", "Margin",
                            OptGet(defaultSpacingControls, "margin"))] >>
        shown == SelectSeq(children, LAMBDA c : c.show)
    IN IF isDisabled \/ ~isSupported THEN Null
       ELSE [t |-> "panel",
             header |-> "Dimensions",
             items |-> [i \in 1..Len(shown) |-> shown[i].item]]

\* the props the host passes to the panel
Props == [name |-> blockName, attributes |-> attributes]

(***************************************************************************)
(* useCustomSides, useIsDimensionsSupportValid                             *)
(***************************************************************************)
TypeError == [t |-> "TypeError"]

\* v[ k ]: throws on undefined, undefined on a missing property
Member(v, k) ==
    IF v = Undef THEN TypeError
    ELSE IF IsObj(v) /\ k \in DOMAIN v.f THEN v.f[k]
    ELSE Undef

Returns(v) == [ret |-> v, warnings |-> <<>>, raised |-> FALSE]
Throws == [ret |-> Undef, warnings |-> <<>>, raised |-> TRUE]

\* array.includes( x )
Includes(array, x) == \E i \in 1..Len(array) : array[i] = x

\* slip: the guard on a missing spacing support is dropped
useCustomSides_unguarded(name, F) ==
    LET support == getBlockSupport(name, <<SPACING_SUPPORT_KEY>>)
        declared == Member(support, F)
    IN IF declared = TypeError THEN Throws
       ELSE IF TypeOf(declared) = "boolean" THEN Returns(Undef)
       ELSE Returns(declared)

useCustomSides(name, F) ==
    LET support == getBlockSupport(name, <<SPACING_SUPPORT_KEY>>)
        declared == Member(support, F)
    IN IF ~Truthy(support) THEN Returns(Undef)
       ELSE IF declared = TypeError THEN Throws
       ELSE IF TypeOf(declared) = "boolean" THEN Returns(Undef)
       ELSE Returns(declared)

\* the text handed to console.warn, as the pieces of the template literal
WarningText(name, F) ==
    << "The ", F, " support for the \"", name,
       "\" block can not be configured to support both axial and arbitrary sides." >>

\* slip: || instead of && between the two tests
useIsDimensionsSupportValid_either(name, F) ==
    LET call == useCustomSides(name, F)
        sides == call.ret
    IN IF call.raised THEN Throws
       ELSE IF Truthy(sides) /\ sides.t # "list" THEN Throws
       ELSE IF /\ Truthy(sides)
               /\ \/ \E i \in 1..Len(sides.l) : Includes(ALL_SIDES, sides.l[i])
                  \/ \E i \in 1..Len(sides.l) : Includes(AXIAL_SIDES, sides.l[i])
            THEN [ret |-> Bool(FALSE),
                  warnings |-> << WarningText(name, F) >>,
                  raised |-> FALSE]
       ELSE Returns(Bool(TRUE))

\* slip: the invalid configuration is reported without a warning
useIsDimensionsSupportValid_silent(name, F) ==
    LET call == useCustomSides(name, F)
        sides == call.ret
    IN IF call.raised THEN Throws
       ELSE IF Truthy(sides) /\ sides.t # "list" THEN Throws
       ELSE IF /\ Truthy(sides)
               /\ \E i \in 1..Len(sides.l) : Includes(ALL_SIDES, sides.l[i])
               /\ \E i \in 1..Len(sides.l) : Includes(AXIAL_SIDES, sides.l[i])
            THEN Returns(Bool(FALSE))
       ELSE Returns(Bool(TRUE))

useIsDimensionsSupportValid(name, F) ==
    LET call == useCustomSides(name, F)
        sides == call.ret
    IN IF call.raised THEN Throws
       \* sides.some is not a function
       ELSE IF Truthy(sides) /\ sides.t # "list" THEN Throws
       ELSE IF /\ Truthy(sides)
               /\ \E i \in 1..Len(sides.l) : Includes(ALL_SIDES, sides.l[i])
               /\ \E i \in 1..Len(sides.l) : Includes(AXIAL_SIDES, sides.l[i])
            THEN [ret |-> Bool(FALSE),
                  warnings |-> << WarningText(name, F) >>,
                  raised |-> FALSE]
       ELSE Returns(Bool(TRUE))

(***************************************************************************)
(* Specification of the reset operations.                                  *)
(***************************************************************************)
StyleIdle ==
    /\ attributes = [style |-> Undef, className |-> Str("is-wide")]
    /\ setterCalls = <<>>
    /\ prevOp = "none"
    /\ prevStyle = Undef

PanelIdle ==
    /\ platform = "web"
    /\ settings = [F \in Features |-> FALSE]
    /\ panel = Unrendered

SidesIdle ==
    /\ feature = "none"
    /\ ret = Undef
    /\ warnings = <<>>
    /\ raised = FALSE

Init ==
    /\ attributes \in {[style |-> s, className |-> Str("is-wide")] : s \in Styles}
    /\ setterCalls = <<>>
    /\ lastOp = "none"
    /\ prevOp = "none"
    /\ prevStyle = Undef
    /\ blockName = "core/group"
    /\ supports = Obj([spacing |-> Bool(TRUE)])
    /\ PanelIdle
    /\ SidesIdle

Run(op, calls) ==
    /\ setterCalls' = calls
    /\ attributes' = ApplyCalls(attributes, calls)
    /\ prevStyle' = attributes["style"]
    /\ prevOp' = lastOp
    /\ lastOp' = op
    /\ UNCHANGED <<panelVars, sidesVars, blockName, supports>>

ResetAll == Run("resetAll", resetAll(attributes))

ResetItem == \E F \in Features : Run(F, resetFeature(F, attributes))

Next == ResetAll \/ ResetItem

Spec == Init /\ [][Next]_vars

(***************************************************************************)
(* Specification of the panel's rendering.                                 *)
(***************************************************************************)
Platforms == {"web", "ios"}

DefaultControls(F1, F2) ==
    {Obj([k \in {F1} |-> Bool(TRUE)]),
     Obj([k \in {F1, F2} |-> Bool(k = F2)])}

DimensionsDecls ==
    {Bool(TRUE)} \cup
    ObjsOver({"height", "minHeight", "__experimentalDefaultControls"},
             [k \in {"height", "minHeight", "__experimentalDefaultControls"} |->
                 IF k = "__experimentalDefaultControls"
                 THEN DefaultControls("height", "minHeight")
                 ELSE {Bool(TRUE), Bool(FALSE)}])

SpacingDecls ==
    {Bool(TRUE)} \cup
    ObjsOver({"margin", "padding", "__experimentalDefaultControls"},
             [k \in {"margin", "padding", "__experimentalDefaultControls"} |->
                 IF k = "__experimentalDefaultControls"
                 THEN DefaultControls("padding", "margin")
                 ELSE {Bool(TRUE), Bool(FALSE), List(<<"top", "bottom">>)}])

PanelSupports ==
    ObjsOver({DIMENSIONS_SUPPORT_KEY, SPACING_SUPPORT_KEY},
             [k \in {DIMENSIONS_SUPPORT_KEY, SPACING_SUPPORT_KEY} |->
                 IF k = DIMENSIONS_SUPPORT_KEY THEN DimensionsDecls
                 ELSE SpacingDecls])

InitPanel ==
    /\ StyleIdle
    /\ SidesIdle
    /\ lastOp = "none"
    /\ blockName = "core/group"
    /\ platform \in Platforms
    /\ supports \in PanelSupports
    /\ settings \in [Features -> BOOLEAN]
    /\ panel = Unrendered

\* the panel is mounted for the block
Render ==
    /\ panel = Unrendered
    /\ panel' = DimensionsPanel(Props)
    /\ lastOp' = "render"
    /\ UNCHANGED <<styleVars, sidesVars, platform, settings, blockName, supports>>

\* the block context enables or disables a feature; the mounted panel re-renders
ChangeSetting ==
    \E F \in Features :
        /\ panel # Unrendered
        /\ settings' = [settings EXCEPT ![F] = ~settings[F]]
        /\ UNCHANGED <<styleVars, sidesVars, platform, blockName, supports>>
        /\ lastOp' = "render"
        /\ panel' = DimensionsPanel(Props)'

NextPanel == Render \/ ChangeSetting

SpecPanel == InitPanel /\ [][NextPanel]_vars

(***************************************************************************)
(* Specification of the side-configuration calls.                          *)
(***************************************************************************)
BlockNames == {"core/group", "core/cover"}
SideUniverse == {"top", "bottom", "vertical", "horizontal", "center"}
SideLists == UNION {[1..n -> SideUniverse] : n \in 0..MaxSides}
SideDecls == {Bool(TRUE), Bool(FALSE)} \cup {List(l) : l \in SideLists}

SidesSupports ==
    ObjsOver({SPACING_SUPPORT_KEY},
             [k \in {SPACING_SUPPORT_KEY} |->
                 {Bool(TRUE), Bool(FALSE)} \cup
                 ObjsOver({"margin", "padding"},
                          [j \in {"margin", "padding"} |-> SideDecls])])

InitSides ==
    /\ StyleIdle
    /\ PanelIdle
    /\ SidesIdle
    /\ lastOp = "none"
    /\ blockName \in BlockNames
    /\ supports \in SidesSupports

Call(op, F, outcome) ==
    /\ lastOp' = op
    /\ feature' = F
    /\ ret' = outcome.ret
    /\ warnings' = outcome.warnings
    /\ raised' = outcome.raised
    /\ UNCHANGED <<styleVars, panelVars, blockName, supports>>

CallUseCustomSides ==
    \E F \in {"margin", "padding"} :
        Call("useCustomSides", F, useCustomSides(blockName, F))

CallUseIsDimensionsSupportValid ==
    \E F \in {"margin", "padding"} :
        Call("useIsDimensionsSupportValid", F,
             useIsDimensionsSupportValid(blockName, F))

NextSides == CallUseCustomSides \/ CallUseIsDimensionsSupportValid

SpecSides == InitSides /\ [][NextSides]_vars

(***************************************************************************)
(* Properties of the reset operations.                                     *)
(***************************************************************************)
currentStyle == attributes["style"]

\* the scalar leaves of a value, each with the path of keys leading to it
RECURSIVE Leaves(_, _)
Leaves(v, path) ==
    IF IsObj(v) THEN UNION {Leaves(v.f[k], Append(path, k)) : k \in DOMAIN v.f}
    ELSE IF v = Undef THEN {}
    ELSE {<<path, v>>}

FeaturePaths == {<<Category(F), F>> : F \in Features}
UnderFeature(path) == Len(path) >= 2 /\ SubSeq(path, 1, 2) \in FeaturePaths

\* the key F exists in its category of the style
FieldPresent(F, st) ==
    /\ IsObj(st)
    /\ Category(F) \in DOMAIN st.f
    /\ IsObj(st.f[Category(F)])
    /\ F \in DOMAIN st.f[Category(F)].f

\* an object none of whose keys holds a value
IsVacuous(v) == IsObj(v) /\ \A k \in DOMAIN v.f : v.f[k] = Undef

RECURSIVE NoEmptyContainer(_)
NoEmptyContainer(v) ==
    IsObj(v) =>
        \A k \in DOMAIN v.f : ~IsVacuous(v.f[k]) /\ NoEmptyContainer(v.f[k])

\* C1: one invocation of "reset all" calls the attribute setter exactly once,
\* and the argument of that call carries only the style key.
C1_ResetAllOneUpdate ==
    lastOp = "resetAll" =>
        Len(setterCalls) = 1 /\ DOMAIN setterCalls[1] = {"style"}

C1_Witness ==
    /\ lastOp = "resetAll"
    /\ Len(setterCalls) = 1
    /\ \A F \in Features : hasValue(F, prevStyle)
    /\ attributes["className"] = Str("is-wide")

\* C2: the style set by "reset all" holds exactly the values of the previous
\* style that lie outside dimensions.height, dimensions.minHeight,
\* spacing.margin and spacing.padding, each at its path and unchanged, and
\* none of the four feature fields is present.
C2_ResetAllResult ==
    lastOp = "resetAll" =>
        /\ Leaves(currentStyle, <<>>) =
              {l \in Leaves(prevStyle, <<>>) : ~UnderFeature(l[1])}
        /\ \A F \in Features : ~FieldPresent(F, currentStyle)

C2_Witness ==
    /\ lastOp = "resetAll"
    /\ \A F \in Features : hasValue(F, prevStyle)
    /\ Leaves(currentStyle, <<>>) =
         { <<(<<"dimensions", "aspectRatio">>), Str("10px")>>,
           <<(<<"spacing", "blockGap">>), Str("10px")>>,
           <<(<<"elements", "link", "color">>), Str("10px")>> }

\* C3: the style produced by "reset all" contains no empty nested container
\* at any level.
C3_ResetAllNoEmptyContainer ==
    lastOp = "resetAll" => NoEmptyContainer(currentStyle)

C3_Witness ==
    /\ lastOp = "resetAll"
    /\ prevStyle = Obj([dimensions |-> Obj([height |-> Str("10px")]),
                        spacing |-> Obj([blockGap |-> Str("10px")]),
                        elements |-> Obj([link |-> EmptyObj])])
    /\ currentStyle = Obj([spacing |-> Obj([blockGap |-> Str("10px")])])

\* C4: "reset all" applied to the style a first "reset all" produced yields
\* that same style.
C4_ResetAllIdempotent ==
    (lastOp = "resetAll" /\ prevOp = "resetAll") => currentStyle = prevStyle

C4_Witness ==
    /\ lastOp = "resetAll"
    /\ prevOp = "resetAll"
    /\ currentStyle = Obj([elements |-> Obj([link |-> Obj([color |-> Str("10px")])])])

\* C10: after a reset that covers a feature its "has value" predicate is
\* false, and an individual reset leaves the "has value" predicate of each
\* of the other three features as it was.
C10_ResetClearsHasValue ==
    /\ lastOp = "resetAll" => \A F \in Features : ~hasValue(F, currentStyle)
    /\ lastOp \in Features =>
          /\ ~hasValue(lastOp, currentStyle)
          /\ \A G \in Features \ {lastOp} :
                hasValue(G, currentStyle) <=> hasValue(G, prevStyle)

C10_Witness ==
    /\ lastOp = "margin"
    /\ \A F \in Features : hasValue(F, prevStyle)
    /\ \A G \in Features \ {"margin"} : hasValue(G, currentStyle)
    /\ ~hasValue("margin", currentStyle)

(***************************************************************************)
(* Properties of the panel's rendering.                                    *)
(***************************************************************************)
\* the features whose sub-control the rendered panel holds
RenderedFeatures == {panel.items[i].feature : i \in DOMAIN panel.items}

\* the block type declares support for none of the four features
NoneSupported == \A F \in Features : ~hasFeatureSupport(F, blockName)

\* every feature's "is disabled" hook reports true
AllDisabled == \A F \in Features : useIsFeatureDisabled(F, Props)

\* C5: the panel renders nothing if and only if the platform is not web, or
\* the block type declares support for none of the four features, or all
\* four features are individually disabled; hasDimensionsSupport is false
\* on every non-web platform and on web when no feature is supported.
C5_PanelSuppressed ==
    /\ panel # Unrendered =>
          (panel = Null <=> (platform # "web" \/ NoneSupported \/ AllDisabled))
    /\ platform # "web" => ~hasDimensionsSupport(blockName)
    /\ (platform = "web" /\ NoneSupported) => ~hasDimensionsSupport(blockName)

C5_Witness ==
    /\ panel = Null
    /\ platform = "ios"
    /\ ~NoneSupported
    /\ ~AllDisabled

\* C6: when the panel is rendered, the sub-control of a feature is rendered
\* if and only if the feature is declared supported and is not disabled,
\* whatever the feature's default-shown flag is.
C6_ItemVisibility ==
    panel.t = "panel" =>
        \A F \in Features :
            F \in RenderedFeatures <=>
                (hasFeatureSupport(F, blockName) /\ ~settings[F])

C6_Witness ==
    /\ panel.t = "panel"
    /\ RenderedFeatures = {"height", "padding"}
    /\ \E i \in DOMAIN panel.items :
          /\ panel.items[i].feature = "height"
          /\ panel.items[i].isShownByDefault = Bool(FALSE)
    /\ \E i \in DOMAIN panel.items :
          /\ panel.items[i].feature = "padding"
          /\ panel.items[i].isShownByDefault = Undef
    /\ GetPath(supports, <<DIMENSIONS_SUPPORT_KEY,
                           "__experimentalDefaultControls", "minHeight">>) = Bool(TRUE)

(***************************************************************************)
(* Properties of the side-configuration calls.                             *)
(***************************************************************************)
\* the spacing support declared for the block, and its entry for the feature
SpacingSupport == OptGet(supports, SPACING_SUPPORT_KEY)
Declared == OptGet(SpacingSupport, feature)

\* the feature declares a custom list of sides
HasSideList == Declared.t = "list"
DeclaredSides == IF HasSideList THEN {Declared.l[i] : i \in DOMAIN Declared.l} ELSE {}
IndividualSides == {ALL_SIDES[i] : i \in DOMAIN ALL_SIDES}
AxialSides == {AXIAL_SIDES[i] : i \in DOMAIN AXIAL_SIDES}
Mixed == DeclaredSides \cap IndividualSides # {} /\ DeclaredSides \cap AxialSides # {}

\* C7: useCustomSides returns nothing when the block has no spacing support
\* configuration or the feature's configuration is a boolean, returns exactly
\* the declared value of the feature in every other case, and never raises.
C7_UseCustomSides ==
    lastOp = "useCustomSides" =>
        /\ ~raised
        /\ IF SpacingSupport = Undef \/ Declared.t = "boolean"
           THEN ret = Undef
           ELSE ret = Declared

C7_Witness ==
    /\ lastOp = "useCustomSides"
    /\ feature = "padding"
    /\ SpacingSupport = Obj([margin |-> Bool(TRUE),
                             padding |-> List(<<"top", "bottom">>)])
    /\ ret = List(<<"top", "bottom">>)

\* C8 as stated: valid exactly when there is no custom side list, or the
\* list is a subset of the individual sides, or a subset of the axial sides.
C8_ValidIffSubset ==
    lastOp = "useIsDimensionsSupportValid" =>
        (ret = Bool(TRUE) <=>
            \/ ~HasSideList
            \/ DeclaredSides \subseteq IndividualSides
            \/ DeclaredSides \subseteq AxialSides)

\* C8 amended: invalid exactly when the custom side list holds at least one
\* individual side and at least one axial side; valid in every other case.
C8_InvalidIffMixed ==
    lastOp = "useIsDimensionsSupportValid" =>
        /\ ret \in {Bool(TRUE), Bool(FALSE)}
        /\ ret = Bool(FALSE) <=> (HasSideList /\ Mixed)

C8_Witness ==
    /\ lastOp = "useIsDimensionsSupportValid"
    /\ feature = "margin"
    /\ Declared = List(<<"top", "center">>)
    /\ ret = Bool(TRUE)

\* C9: a call of useIsDimensionsSupportValid on a list mixing an individual
\* and an axial side returns false and emits exactly one warning, whose text
\* names the feature and the block name; a call that returns true emits no
\* warning; neither raises.
C9_WarnsOnceOnMixed ==
    lastOp = "useIsDimensionsSupportValid" =>
        /\ (HasSideList /\ Mixed) =>
              /\ ret = Bool(FALSE)
              /\ ~raised
              /\ Len(warnings) = 1
              /\ \E i \in DOMAIN warnings[1] : warnings[1][i] = feature
              /\ \E i \in DOMAIN warnings[1] : warnings[1][i] = blockName
        /\ ret = Bool(TRUE) => (warnings = <<>> /\ ~raised)

C9_Witness ==
    /\ lastOp = "useIsDimensionsSupportValid"
    /\ feature = "padding"
    /\ blockName = "core/cover"
    /\ Declared = List(<<"top", "vertical">>)
    /\ ret = Bool(FALSE)
    /\ warnings = << WarningText("core/cover", "padding") >>

====
